---- MODULE Spec2Model ----
(***************************************************************************)
(* Model of the bounding-box annotation tool of src/main.cpp: the          *)
(* ImageViewer object (decoded image, path, directory listing, the single  *)
(* BoundingBox, the displayed-image rectangle), the companion CSV files    *)
(* and the main loop that calls SaveCSV, NavigatePrevious, NavigateNext,   *)
(* LoadCSV and Render once per frame, in that order.                       *)
(*                                                                         *)
(* Coordinates are C++ floats.  A float is modelled as a pair <<m, e>>     *)
(* standing for m * 2^e with 2^23 <= |m| < 2^24 (IEEE-754 binary32,        *)
(* round to nearest, ties to even), <<0, 0>> for zero and three special    *)
(* values for NaN and the infinities.  Every arithmetic operator rounds    *)
(* its result as the hardware does, one operation at a time (no fused      *)
(* multiply-add).  Subnormal numbers are not modelled: no value of the     *)
(* model comes near 2^-126.                                                *)
(***************************************************************************)
EXTENDS Integers, Sequences, FiniteSets, TLC

(***************************************************************************)
(* binary32 arithmetic                                                     *)
(***************************************************************************)
SpecialExp == 2 * 100

NaN == <<0, SpecialExp>>

PosInf == <<1, SpecialExp>>

NegInf == <<-1, SpecialExp>>

FZero == <<0, 0>>

IsNaN(a) == a = NaN

IsInf(a) == a = PosInf \/ a = NegInf

IsFinite(a) == a[2] # SpecialExp

Sign(a) == IF a[1] < 0 THEN -1 ELSE IF a[1] > 0 THEN 1 ELSE 0

AbsInt(n) == IF n < 0 THEN -n ELSE n

\* number of bits of a natural number below 2^31
BitLen(n) ==
    IF n >= 16777216
    THEN IF n >= 268435456
         THEN (IF n >= 1073741824 THEN 31 ELSE IF n >= 536870912 THEN 30 ELSE 29)
         ELSE (IF n >= 67108864 THEN (IF n >= 134217728 THEN 28 ELSE 27)
               ELSE IF n >= 33554432 THEN 26 ELSE 25)
    ELSE IF n >= 4096
    THEN IF n >= 262144
         THEN (IF n >= 4194304 THEN (IF n >= 8388608 THEN 24 ELSE 23)
               ELSE IF n >= 1048576 THEN (IF n >= 2097152 THEN 22 ELSE 21)
               ELSE IF n >= 524288 THEN 20 ELSE 19)
         ELSE (IF n >= 65536 THEN (IF n >= 131072 THEN 18 ELSE 17)
               ELSE IF n >= 16384 THEN (IF n >= 32768 THEN 16 ELSE 15)
               ELSE IF n >= 8192 THEN 14 ELSE 13)
    ELSE IF n >= 64
    THEN (IF n >= 1024 THEN (IF n >= 2048 THEN 12 ELSE 11)
          ELSE IF n >= 256 THEN (IF n >= 512 THEN 10 ELSE 9)
          ELSE IF n >= 128 THEN 8 ELSE 7)
    ELSE IF n >= 8 THEN (IF n >= 32 THEN 6 ELSE IF n >= 16 THEN 5 ELSE 4)
    ELSE IF n >= 4 THEN 3 ELSE IF n >= 2 THEN 2 ELSE n

\* sign * m * 2^e as a float, m having 24 bits: infinite above the largest float
Pack(sign, m, e) ==
    IF e > 104 THEN (IF sign < 0 THEN NegInf ELSE PosInf) ELSE <<sign * m, e>>

\* the rounded 24-bit quotient q may have become 2^24
Carry(sign, q, e) == IF q = 2^24 THEN Pack(sign, 2^23, e + 1) ELSE Pack(sign, q, e)

\* round to nearest, ties to even: q is followed by the bits r, half is their middle
RoundShift(sign, q, r, half, e) ==
    Carry(sign, IF r > half \/ (r = half /\ q % 2 = 1) THEN q + 1 ELSE q, e)

\* M has L bits
Normalize(sign, M, e, L) ==
    IF L <= 24
    THEN <<sign * M * 2^(24 - L), e - (24 - L)>>
    ELSE RoundShift(sign, M \div 2^(L - 24), M % 2^(L - 24), 2^(L - 25), e + (L - 24))

\* The float nearest to sign * (M + s) * 2^e, where M < 2^31 is a natural
\* number and s in [0,1) is nonzero exactly when the lowest bit of M is a
\* sticky bit that was jammed in (then M has at least 26 bits).
RoundPack(sign, M, e) == IF M = 0 THEN FZero ELSE Normalize(sign, M, e, BitLen(M))

\* the sticky bit: the lowest bit of q is set when the bits dropped after it are not all 0
Jam(q, dropped) == IF dropped # 0 /\ q % 2 = 0 THEN q + 1 ELSE q

\* (float)n for an int n
FromInt(n) == IF n = -2147483647 - 1 THEN <<-(2^23), 8>>
              ELSE RoundPack(IF n < 0 THEN -1 ELSE 1, AbsInt(n), 0)

FNeg(a) == <<-a[1], a[2]>>

FAbs(a) == <<AbsInt(a[1]), a[2]>>

\* a < b; false when either is NaN
FLess(a, b) ==
    IF IsNaN(a) \/ IsNaN(b) THEN FALSE
    ELSE IF a = b THEN FALSE
    ELSE IF a = NegInf \/ b = PosInf THEN TRUE
    ELSE IF a = PosInf \/ b = NegInf THEN FALSE
    ELSE IF Sign(a) # Sign(b) THEN Sign(a) < Sign(b)
    ELSE IF Sign(a) > 0
         THEN a[2] < b[2] \/ (a[2] = b[2] /\ a[1] < b[1])
         ELSE a[2] > b[2] \/ (a[2] = b[2] /\ a[1] < b[1])

FLessEq(a, b) == IF IsNaN(a) \/ IsNaN(b) THEN FALSE ELSE a = b \/ FLess(a, b)

\* std::min(a, b) is (b < a) ? b : a and std::max(a, b) is (a < b) ? b : a
FMin(a, b) == IF FLess(b, a) THEN b ELSE a

FMax(a, b) == IF FLess(a, b) THEN b ELSE a

\* B shifted right by d bits, the dropped bits jammed into the lowest bit
Shifted(B, d) == IF d > 27 THEN 1 ELSE Jam(B \div 2^d, B % 2^d)

\* the float nearest to S * 2^e for an integer S
RoundSigned(S, e) == RoundPack(IF S < 0 THEN -1 ELSE 1, AbsInt(S), e)

\* the sum of two finite nonzero floats, |a| having the larger exponent:
\* three guard bits are kept
AddAligned(a, b) ==
    RoundSigned(a[1] * 8 + Sign(b) * Shifted(AbsInt(b[1]) * 8, a[2] - b[2]), a[2] - 3)

FAdd(a, b) ==
    IF IsNaN(a) \/ IsNaN(b) THEN NaN
    ELSE IF IsInf(a) THEN (IF IsInf(b) /\ a # b THEN NaN ELSE a)
    ELSE IF IsInf(b) THEN b
    ELSE IF a = FZero THEN b
    ELSE IF b = FZero THEN a
    ELSE IF a[2] >= b[2] THEN AddAligned(a, b) ELSE AddAligned(b, a)

FSub(a, b) == FAdd(a, FNeg(b))

\* the 48-bit product in three parts: top keeps its upper 28 bits, rest the others
MulTop(sign, top, rest, e) == RoundPack(sign, Jam(top, rest), e)

MulJoin(sign, hi, los, e) ==
    MulTop(sign, (hi + los \div 16777216) * 16 + (los % 16777216) \div 1048576,
           los % 1048576, e)

MulSum(sign, hh, mid, ll, e) == MulJoin(sign, hh + mid \div 4096, ll + (mid % 4096) * 4096, e)

\* (a1 * 2^12 + b1) * (a2 * 2^12 + b2), no partial product leaving 31 bits
MulParts(sign, a1, b1, a2, b2, e) == MulSum(sign, a1 * a2, a1 * b2 + a2 * b1, b1 * b2, e)

FMul(a, b) ==
    IF IsNaN(a) \/ IsNaN(b) THEN NaN
    ELSE IF IsInf(a) \/ IsInf(b)
         THEN (IF a = FZero \/ b = FZero THEN NaN
               ELSE IF Sign(a) * Sign(b) < 0 THEN NegInf ELSE PosInf)
    ELSE IF a = FZero \/ b = FZero THEN FZero
    ELSE MulParts(Sign(a) * Sign(b),
                  AbsInt(a[1]) \div 4096, AbsInt(a[1]) % 4096,
                  AbsInt(b[1]) \div 4096, AbsInt(b[1]) % 4096,
                  a[2] + b[2] + 20)

RECURSIVE DivBits(_, _, _, _)
\* n more quotient bits of r / d appended to q; the result is <<quotient, remainder>>
DivBits(r, d, q, n) ==
    IF n = 0 THEN <<q, r>>
    ELSE IF 2 * r >= d THEN DivBits(2 * r - d, d, 2 * q + 1, n - 1)
         ELSE DivBits(2 * r, d, 2 * q, n - 1)

\* the quotient qr[1] with a nonzero remainder qr[2] jammed in
DivRound(sign, qr, e) == RoundPack(sign, Jam(qr[1], qr[2]), e)

\* the quotient of the 24-bit m1 and m2 to 26 more bits
DivFinite(sign, m1, m2, e) == DivRound(sign, DivBits(m1 % m2, m2, m1 \div m2, 26), e)

FDiv(a, b) ==
    IF IsNaN(a) \/ IsNaN(b) THEN NaN
    ELSE IF IsInf(a)
         THEN (IF IsInf(b) THEN NaN
               ELSE IF Sign(a) * (IF Sign(b) < 0 THEN -1 ELSE 1) < 0 THEN NegInf ELSE PosInf)
    ELSE IF IsInf(b) THEN FZero
    ELSE IF b = FZero
         THEN (IF a = FZero THEN NaN ELSE IF Sign(a) < 0 THEN NegInf ELSE PosInf)
    ELSE IF a = FZero THEN FZero
    ELSE DivFinite(Sign(a) * Sign(b), AbsInt(a[1]), AbsInt(b[1]), a[2] - b[2] - 26)

IntMax == 2147483647

\* whether (int)a is defined: a is finite and its truncation is an int
CastDefined(a) ==
    /\ IsFinite(a)
    /\ \/ a[2] < 8
       \/ a = <<-(2^23), 8>>

\* (int)a for a float a with CastDefined(a): truncation toward zero
Truncate(a) ==
    IF a[2] >= 0 THEN a[1] * 2^a[2]
    ELSE IF a[2] <= -24 THEN 0
    ELSE Sign(a) * (AbsInt(a[1]) \div 2^(-a[2]))

(***************************************************************************)
(* strings, paths and the files on disk                                    *)
(***************************************************************************)
\* "x_min,y_min,x_max,y_max", the header line SaveBoundingBoxToCSV writes
Header == <<"x","_","m","i","n",",","y","_","m","i","n",",",
            "x","_","m","a","x",",","y","_","m","a","x">>

Digits == <<"0","1","2","3","4","5","6","7","8","9">>

Letters == {"a","b","c","d","e","g","i","j","m","n","p","s","v","x","y","B","G","J","P"}

\* character codes, for std::sort's order on paths
Code(c) ==
    CASE c = "." -> 46 [] c = "/" -> 47
      [] c = "B" -> 66 [] c = "G" -> 71 [] c = "J" -> 74 [] c = "P" -> 80
      [] c = "a" -> 97 [] c = "b" -> 98 [] c = "c" -> 99 [] c = "d" -> 100
      [] c = "e" -> 101 [] c = "g" -> 103 [] c = "j" -> 106 [] c = "n" -> 110
      [] c = "p" -> 112 [] c = "s" -> 115 [] c = "v" -> 118
      [] OTHER -> 0

\* ::tolower on one character
ToLower(c) ==
    CASE c = "B" -> "b" [] c = "G" -> "g" [] c = "J" -> "j" [] c = "P" -> "p"
      [] OTHER -> c

\* std::string::find_last_of(ch): the last index holding ch, 0 for npos
FindLastOf(s, ch) ==
    IF \E i \in 1..Len(s) : s[i] = ch
    THEN CHOOSE i \in 1..Len(s) : s[i] = ch /\ \A j \in (i+1)..Len(s) : s[j] # ch
    ELSE 0

\* the companion CSV path: the path up to its last dot, plus ".csv"
CsvPathOf(path) ==
    LET lastDot == FindLastOf(path, ".")
    IN IF lastDot # 0
       THEN SubSeq(path, 1, lastDot - 1) \o <<".","c","s","v">>
       ELSE path \o <<".","c","s","v">>

\* std::filesystem::path::parent_path
ParentPath(path) ==
    LET slash == FindLastOf(path, "/")
    IN IF slash = 0 THEN <<>> ELSE SubSeq(path, 1, slash - 1)

\* std::filesystem::path::extension, lower-cased
LowerExtension(path) ==
    LET name == SubSeq(path, FindLastOf(path, "/") + 1, Len(path))
        dot  == FindLastOf(name, ".")
        ext  == IF dot <= 1 THEN <<>> ELSE SubSeq(name, dot, Len(name))
    IN [i \in 1..Len(ext) |-> ToLower(ext[i])]

supportedExtensions ==
    { <<".","j","p","g">>, <<".","j","p","e","g">>, <<".","p","n","g">>,
      <<".","b","m","p">>, <<".","t","i","f","f">>, <<".","t","g","a">> }

\* std::string's operator<
RECURSIVE StrLess(_, _)
StrLess(s, t) ==
    IF t = <<>> THEN FALSE
    ELSE IF s = <<>> THEN TRUE
    ELSE IF Code(Head(s)) # Code(Head(t)) THEN Code(Head(s)) < Code(Head(t))
    ELSE StrLess(Tail(s), Tail(t))

\* std::sort of a set of paths
RECURSIVE SortPaths(_)
SortPaths(S) ==
    IF S = {} THEN <<>>
    ELSE LET least == CHOOSE p \in S : \A q \in S \ {p} : StrLess(p, q)
         IN <<least>> \o SortPaths(S \ {least})

\* std::find: the 0-based index of path in files, -1 when it is not there
IndexOf(files, path) ==
    IF \E i \in 1..Len(files) : files[i] = path
    THEN (CHOOSE i \in 1..Len(files) : files[i] = path) - 1
    ELSE -1

\* width and height of the two decodable picture sizes on disk
SquareDim == 3

WideCols == 4

\* The pictures on disk: whether std::ifstream can open the file and the
\* size cv::imread decodes (0 x 0: the file cannot be decoded).
ImageDisk ==
    ( <<"d","/","a",".","j","p","g">> :> [readable |-> TRUE,  cols |-> SquareDim, rows |-> SquareDim] ) @@
    ( <<"d","/","a",".","p","n","g">> :> [readable |-> TRUE,  cols |-> WideCols,  rows |-> SquareDim] ) @@
    ( <<"d","/","B",".","J","P","G">> :> [readable |-> TRUE,  cols |-> SquareDim, rows |-> SquareDim] ) @@
    ( <<"d","/","c",".","j","p","g">> :> [readable |-> TRUE,  cols |-> 0, rows |-> 0] ) @@
    ( <<"d","/","e",".","j","p","g">> :> [readable |-> FALSE, cols |-> 0, rows |-> 0] ) @@
    ( <<"s",".","j","p","g">>         :> [readable |-> TRUE,  cols |-> 1, rows |-> 1] ) @@
    ( <<"r",".","j","p","g">>         :> [readable |-> TRUE,  cols |-> 1, rows |-> 1] ) @@
    ( <<"w",".","p","n","g">>         :> [readable |-> TRUE,  cols |-> WideCols,  rows |-> SquareDim] )

Directories == { <<"d">> }

CsvPaths == { CsvPathOf(p) : p \in DOMAIN ImageDisk }

\* the CSV files std::ofstream cannot open (a file the user may not write)
ReadOnlyCsv == { <<"r",".","c","s","v">> }

NoFile == [exists |-> FALSE, lines |-> <<>>]

FileOf(lines) == [exists |-> TRUE, lines |-> lines]

(***************************************************************************)
(* text of integers                                                        *)
(***************************************************************************)
DigitOf(c) == IF \E d \in 0..9 : Digits[d+1] = c
              THEN CHOOSE d \in 0..9 : Digits[d+1] = c
              ELSE -1

RECURSIVE FormatNat(_)
FormatNat(n) == IF n < 10 THEN <<Digits[n+1]>>
                ELSE FormatNat(n \div 10) \o <<Digits[(n % 10) + 1]>>

\* operator<< of an int
FormatInt(n) == IF n < 0 THEN <<"-">> \o FormatNat(-n) ELSE FormatNat(n)

\* one CSV data row: four ints joined by commas
FormatRow(xmin, ymin, xmax, ymax) ==
    FormatInt(xmin) \o <<",">> \o FormatInt(ymin) \o <<",">> \o
    FormatInt(xmax) \o <<",">> \o FormatInt(ymax)

\* std::getline(ss, token, ','): the tokens of a line
RECURSIVE Split(_)
Split(line) ==
    LET comma == IF \E i \in 1..Len(line) : line[i] = ","
                 THEN CHOOSE i \in 1..Len(line) : line[i] = "," /\ \A j \in 1..(i-1) : line[j] # ","
                 ELSE 0
    IN IF line = <<>> THEN <<>>
       ELSE IF comma = 0 THEN <<line>>
       ELSE <<SubSeq(line, 1, comma - 1)>> \o Split(SubSeq(line, comma + 1, Len(line)))

RECURSIVE StoiDigits(_, _, _)
\* the digits of s from index i on, accumulated on acc (a magnitude); -1 when
\* the value leaves the range of int
StoiDigits(s, i, acc) ==
    IF i > Len(s) \/ DigitOf(s[i]) < 0 THEN acc
    ELSE IF acc > (IntMax - DigitOf(s[i])) \div 10 THEN -1
    ELSE StoiDigits(s, i + 1, acc * 10 + DigitOf(s[i]))

\* std::stoi: <<TRUE, value>>, or <<FALSE, 0>> when it throws (no digits:
\* std::invalid_argument; too large: std::out_of_range)
Stoi(s) ==
    LET neg   == s # <<>> /\ s[1] = "-"
        first == IF s # <<>> /\ (s[1] = "-" \/ s[1] = "+") THEN 2 ELSE 1
        mag   == StoiDigits(s, first, 0)
    IN IF first > Len(s) \/ DigitOf(s[first]) < 0 THEN <<FALSE, 0>>
       ELSE IF mag < 0 THEN <<FALSE, 0>>
       ELSE <<TRUE, IF neg THEN -mag ELSE mag>>

(***************************************************************************)
(* the viewer's state                                                      *)
(***************************************************************************)
VARIABLES
    image,              \* cv::Mat image: [cols, rows], 0 x 0 when empty
    textureID,          \* 0 until a picture has been uploaded
    imagePath,          \* path of the displayed picture, <<>> when none
    imageFiles,         \* sorted paths of the pictures of the directory
    currentImageIndex,  \* 0-based index into imageFiles, -1 when unknown
    bbox,               \* the BoundingBox
    imagePos,           \* top-left corner of the displayed picture, screen
    imageSize,          \* size of the displayed picture, screen
    mouseDown,          \* ImGui io.MouseDown[0] as of the last frame
    dragPast,           \* io.MouseDragMaxDistanceSqr[0] has reached the drag threshold
    MousePos,           \* ImGui io.MousePos as of the last frame
    csv,                \* content of each companion CSV file
    pc                  \* place in main(): the call of the loop body made last

vars == <<image, textureID, imagePath, imageFiles, currentImageIndex, bbox,
          imagePos, imageSize, mouseDown, dragPast, MousePos, csv, pc>>

Handles == {"None", "TopLeft", "TopRight", "BottomLeft", "BottomRight",
            "Top", "Bottom", "Left", "Right"}

EmptyMat == [cols |-> 0, rows |-> 0]

\* BoundingBox(): value-initialised, so the four floats are zero
DefaultBox ==
    [x1 |-> FZero, y1 |-> FZero, x2 |-> FZero, y2 |-> FZero,
     isDrawing |-> FALSE, isValid |-> FALSE, isSelected |-> FALSE,
     loadedFromCSV |-> FALSE,
     pixelX1 |-> 0, pixelY1 |-> 0, pixelX2 |-> 0, pixelY2 |-> 0,
     activeHandle |-> "None"]

(***************************************************************************)
(* LoadBoundingBoxFromCSV                                                  *)
(***************************************************************************)
HasAlpha(line) == \E i \in 1..Len(line) : line[i] \in Letters

\* a load that forgets to clear isSelected: C4's property must tell it from
\* StoreLoadedRow
StoreLoadedRowKeep(b, xmin, ymin, xmax, ymax) ==
    [b EXCEPT !.pixelX1 = xmin, !.pixelY1 = ymin,
              !.pixelX2 = xmax, !.pixelY2 = ymax,
              !.isValid = TRUE, !.isDrawing = FALSE,
              !.loadedFromCSV = TRUE, !.activeHandle = "None"]

\* a load that leaves a drawing in progress: C12's property must tell it from
\* StoreLoadedRow
StoreLoadedRowDrawing(b, xmin, ymin, xmax, ymax) ==
    [b EXCEPT !.pixelX1 = xmin, !.pixelY1 = ymin,
              !.pixelX2 = xmax, !.pixelY2 = ymax,
              !.isValid = TRUE, !.isSelected = FALSE,
              !.loadedFromCSV = TRUE, !.activeHandle = "None"]

\* the box after the statements of the try block, for four parsed ints
StoreLoadedRow(b, xmin, ymin, xmax, ymax) ==
    [b EXCEPT !.pixelX1 = xmin, !.pixelY1 = ymin,
              !.pixelX2 = xmax, !.pixelY2 = ymax,
              !.isValid = TRUE, !.isSelected = FALSE, !.isDrawing = FALSE,
              !.loadedFromCSV = TRUE, !.activeHandle = "None"]

RECURSIVE ReadLines(_, _, _)
\* the while loop over the lines of the file, from line i on
ReadLines(lines, i, b) ==
    IF i > Len(lines) THEN b
    ELSE IF i = 1 /\ HasAlpha(lines[i]) THEN ReadLines(lines, i + 1, b)
    ELSE LET tokens == Split(lines[i])
             n1 == Stoi(tokens[1])
             n2 == Stoi(tokens[2])
             n3 == Stoi(tokens[3])
             n4 == Stoi(tokens[4])
         IN IF Len(tokens) >= 4 /\ n1[1] /\ n2[1] /\ n3[1] /\ n4[1]
            THEN StoreLoadedRow(b, n1[2], n2[2], n3[2], n4[2])
            ELSE ReadLines(lines, i + 1, b)

LoadBoundingBoxFromCSV(path, b, files) ==
    IF path = <<>> THEN b
    ELSE IF ~files[CsvPathOf(path)].exists THEN b
    ELSE ReadLines(files[CsvPathOf(path)].lines, 1, b)

(***************************************************************************)
(* ScanDirectory and LoadImage                                             *)
(***************************************************************************)
\* the regular files of a directory: pictures and the CSV files that exist
DirectoryEntries(dir, files) ==
    { p \in DOMAIN ImageDisk : ParentPath(p) = dir } \cup
    { c \in CsvPaths : files[c].exists /\ ParentPath(c) = dir }

\* imageFiles after ScanDirectory
ScanDirectory(path, files) ==
    LET directory == ParentPath(path)
    IN IF directory \notin Directories THEN <<>>
       ELSE SortPaths({ p \in DirectoryEntries(directory, files) :
                            LowerExtension(p) \in supportedExtensions })

FileMissing(path) == path \notin DOMAIN ImageDisk \/ ~ImageDisk[path].readable

DecodeFails(path) == ~FileMissing(path) /\ ImageDisk[path].cols = 0

\* LoadImage(path), called with the box b
LoadImage(path, b) ==
    IF FileMissing(path)
    THEN /\ bbox' = b
         /\ UNCHANGED <<image, textureID, imagePath, imageFiles, currentImageIndex>>
    ELSE IF DecodeFails(path)
    THEN /\ image' = EmptyMat
         /\ bbox' = b
         /\ UNCHANGED <<textureID, imagePath, imageFiles, currentImageIndex>>
    ELSE /\ image' = [cols |-> ImageDisk[path].cols, rows |-> ImageDisk[path].rows]
         /\ imagePath' = path
         /\ imageFiles' = ScanDirectory(path, csv)
         /\ currentImageIndex' = IndexOf(ScanDirectory(path, csv), path)
         /\ bbox' = LoadBoundingBoxFromCSV(path, b, csv)
         /\ textureID' = 1

(***************************************************************************)
(* the frames' inputs, and the values a coordinate can take                *)
(***************************************************************************)
Pt(x, y) == <<FromInt(x), FromInt(y)>>

\* glfwCreateWindow(1200, 800), and the window after the user has resized it
WindowCreated == Pt(1200, 800)

WindowResized == Pt(600, 400)

WindowSizes == {WindowCreated, WindowResized}

\* io.MousePos before the first mouse event: (-FLT_MAX, -FLT_MAX)
NoMouse == << <<-(2^24 - 1), 104>>, <<-(2^24 - 1), 104>> >>

\* a cursor position that lies outside every displayed picture
Outside == Pt(10, 400)

\* cursor positions over the picture: two opposite corners of a box
TwoPoints == { Pt(300, 100), Pt(900, 700) }

\* cursor positions over the picture: the corners, the edge midpoints and the
\* centre of the box from (300, 100) to (900, 700)
GridPoints == { Pt(x, y) : x \in {300, 600, 900}, y \in {100, 400, 700} }

MousePoints == GridPoints \cup {Outside}

\* The four floats of bbox are not initialised by ImageViewer's constructor:
\* the values they may hold at the start.
Indeterminate == { <<FZero, FZero, FZero, FZero>>,
                   <<FromInt(900), FromInt(700), FromInt(-5), FromInt(100)>> }

\* the rows of the CSV files that exist before the program starts
InitialRows == { <<1, 1, 2, 2>>, <<2, 2, 1, 1>>, <<-1, -2, 5, 4>>, <<1, 1, IntMax, 2>> }

(***************************************************************************)
(* hit tests and resizing                                                  *)
(***************************************************************************)
cornerSize == FromInt(12)

edgeSize == FromInt(6)

IsPointInBoundingBox(b, point) ==
    /\ FLessEq(FMin(b.x1, b.x2), point[1]) /\ FLessEq(point[1], FMax(b.x1, b.x2))
    /\ FLessEq(FMin(b.y1, b.y2), point[2]) /\ FLessEq(point[2], FMax(b.y1, b.y2))

\* std::abs(p - q) <= size
Near(p, q, size) == FLessEq(FAbs(FSub(p, q)), size)

\* p > lo + cornerSize && p < hi - cornerSize
Between(p, lo, hi) == FLess(FAdd(lo, cornerSize), p) /\ FLess(p, FSub(hi, cornerSize))

\* the handle at (px, py) of the valid box with the normalised sides minX .. maxY
HandleOf(isSelected, minX, maxX, minY, maxY, px, py) ==
    IF Near(px, minX, cornerSize) /\ Near(py, minY, cornerSize) THEN "TopLeft"
    ELSE IF Near(px, maxX, cornerSize) /\ Near(py, minY, cornerSize) THEN "TopRight"
    ELSE IF Near(px, minX, cornerSize) /\ Near(py, maxY, cornerSize) THEN "BottomLeft"
    ELSE IF Near(px, maxX, cornerSize) /\ Near(py, maxY, cornerSize) THEN "BottomRight"
    ELSE IF ~isSelected THEN "None"
    ELSE IF Near(py, minY, edgeSize) /\ Between(px, minX, maxX) THEN "Top"
    ELSE IF Near(py, maxY, edgeSize) /\ Between(px, minX, maxX) THEN "Bottom"
    ELSE IF Near(px, minX, edgeSize) /\ Between(py, minY, maxY) THEN "Left"
    ELSE IF Near(px, maxX, edgeSize) /\ Between(py, minY, maxY) THEN "Right"
    ELSE "None"

\* a hit test that offers the edge handles of an unselected box too: C5's
\* property must tell it from GetResizeHandle
GetResizeHandleAll(b, point) ==
    IF ~b.isValid THEN "None"
    ELSE HandleOf(TRUE, FMin(b.x1, b.x2), FMax(b.x1, b.x2),
                  FMin(b.y1, b.y2), FMax(b.y1, b.y2), point[1], point[2])

\* a hit test on the stored corners, not on the normalised box: C17's
\* property must tell it from GetResizeHandle
GetResizeHandleRaw(b, point) ==
    IF ~b.isValid THEN "None"
    ELSE HandleOf(b.isSelected, b.x1, b.x2, b.y1, b.y2, point[1], point[2])

GetResizeHandle(b, point) ==
    IF ~b.isValid THEN "None"
    ELSE HandleOf(b.isSelected, FMin(b.x1, b.x2), FMax(b.x1, b.x2),
                  FMin(b.y1, b.y2), FMax(b.y1, b.y2), point[1], point[2])

ResizeBoundingBox(b, mousePos) ==
    CASE b.activeHandle = "TopLeft"     -> [b EXCEPT !.x1 = mousePos[1], !.y1 = mousePos[2]]
      [] b.activeHandle = "TopRight"    -> [b EXCEPT !.x2 = mousePos[1], !.y1 = mousePos[2]]
      [] b.activeHandle = "BottomLeft"  -> [b EXCEPT !.x1 = mousePos[1], !.y2 = mousePos[2]]
      [] b.activeHandle = "BottomRight" -> [b EXCEPT !.x2 = mousePos[1], !.y2 = mousePos[2]]
      [] b.activeHandle = "Top"         -> [b EXCEPT !.y1 = mousePos[2]]
      [] b.activeHandle = "Bottom"      -> [b EXCEPT !.y2 = mousePos[2]]
      [] b.activeHandle = "Left"        -> [b EXCEPT !.x1 = mousePos[1]]
      [] b.activeHandle = "Right"       -> [b EXCEPT !.x2 = mousePos[1]]
      [] OTHER                          -> b

(***************************************************************************)
(* HandleMouseInput                                                        *)
(***************************************************************************)
IsOverImage(mousePos, pos, size) ==
    /\ FLessEq(pos[1], mousePos[1]) /\ FLessEq(mousePos[1], FAdd(pos[1], size[1]))
    /\ FLessEq(pos[2], mousePos[2]) /\ FLessEq(mousePos[2], FAdd(pos[2], size[2]))

\* a press that keeps the previous box valid while the new one is drawn:
\* C16's property must tell it from StartDrawing
StartDrawingKeepValid(b, mousePos) ==
    [b EXCEPT !.x1 = mousePos[1], !.y1 = mousePos[2],
              !.x2 = mousePos[1], !.y2 = mousePos[2],
              !.isDrawing = TRUE, !.isSelected = FALSE,
              !.activeHandle = "None"]

StartDrawing(b, mousePos) ==
    [b EXCEPT !.x1 = mousePos[1], !.y1 = mousePos[2],
              !.x2 = mousePos[1], !.y2 = mousePos[2],
              !.isDrawing = TRUE, !.isValid = FALSE, !.isSelected = FALSE,
              !.activeHandle = "None"]

\* if (bbox.isDrawing && IsMouseDragging)
DragDraw(b, mousePos, dragging) ==
    IF b.isDrawing /\ dragging THEN [b EXCEPT !.x2 = mousePos[1], !.y2 = mousePos[2]] ELSE b

\* if (bbox.activeHandle != None && IsMouseDragging)
DragResize(b, mousePos, dragging) ==
    IF b.activeHandle # "None" /\ dragging THEN ResizeBoundingBox(b, mousePos) ELSE b

\* a release that keeps the second corner of the last drag: C8's property
\* must tell it from FinishDrawing
FinishDrawingKeepCorner(b, mousePos) ==
    IF b.isDrawing
    THEN [b EXCEPT !.isDrawing = FALSE, !.isValid = TRUE, !.isSelected = TRUE]
    ELSE b

\* a release that selects the box without making it valid: C13's property
\* must tell it from FinishDrawing
FinishDrawingSelectOnly(b, mousePos) ==
    IF b.isDrawing
    THEN [b EXCEPT !.x2 = mousePos[1], !.y2 = mousePos[2],
                   !.isDrawing = FALSE, !.isSelected = TRUE]
    ELSE b

FinishDrawing(b, mousePos) ==
    IF b.isDrawing
    THEN [b EXCEPT !.x2 = mousePos[1], !.y2 = mousePos[2],
                   !.isDrawing = FALSE, !.isValid = TRUE, !.isSelected = TRUE]
    ELSE b

\* if (IsMouseReleased): finish the drawing, then drop the active handle
Release(b, mousePos, released) ==
    IF released THEN [FinishDrawing(b, mousePos) EXCEPT !.activeHandle = "None"] ELSE b

\* the statements after the click block, in order
AfterClick(b, mousePos, dragging, released) ==
    Release(DragResize(DragDraw(b, mousePos, dragging), mousePos, dragging), mousePos, released)

\* the click block for a valid box, handle being GetResizeHandle(mousePos):
\* the box, and whether the handler returns at once
ClickValid(b, mousePos, handle) ==
    IF handle # "None"
    THEN <<[b EXCEPT !.activeHandle = handle, !.isSelected = TRUE], TRUE>>
    ELSE IF IsPointInBoundingBox(b, mousePos)
    THEN <<[b EXCEPT !.isSelected = TRUE], TRUE>>
    ELSE <<StartDrawing(b, mousePos), FALSE>>

\* if (IsMouseClicked) over the picture
Click(b, mousePos) ==
    IF b.isValid THEN ClickValid(b, mousePos, GetResizeHandle(b, mousePos))
    ELSE <<StartDrawing(b, mousePos), FALSE>>

\* the rest of the handler, unless the click block has returned
ClickThen(r, mousePos, dragging, released) ==
    IF r[2] THEN r[1] ELSE AfterClick(r[1], mousePos, dragging, released)

\* a handler that does not look where the cursor is: C18's property must
\* tell it from HandleMouseInput
HandleMouseInputAnywhere(b, mousePos, clicked, dragging, released, pos, size) ==
    IF clicked THEN ClickThen(Click(b, mousePos), mousePos, dragging, released)
    ELSE AfterClick(b, mousePos, dragging, released)

\* the box after HandleMouseInput (textureID is not 0)
HandleMouseInput(b, mousePos, clicked, dragging, released, pos, size) ==
    IF IsOverImage(mousePos, pos, size)
    THEN IF clicked THEN ClickThen(Click(b, mousePos), mousePos, dragging, released)
         ELSE AfterClick(b, mousePos, dragging, released)
    ELSE IF clicked THEN [b EXCEPT !.isSelected = FALSE] ELSE b

(***************************************************************************)
(* Render                                                                  *)
(***************************************************************************)
Half == <<2^23, -24>>

\* imageSize for the aspect ratio of the picture
FitTo(displaySize, imageAspectRatio) ==
    IF FLess(FDiv(displaySize[1], displaySize[2]), imageAspectRatio)
    THEN <<displaySize[1], FDiv(displaySize[1], imageAspectRatio)>>
    ELSE <<FMul(displaySize[2], imageAspectRatio), displaySize[2]>>

\* imageSize for a picture img in a window of displaySize
FitSize(img, displaySize) == FitTo(displaySize, FDiv(FromInt(img.cols), FromInt(img.rows)))

\* imageOffset, which is imagePos: the window sits at (0, 0) and does not scroll
CenterOffset(displaySize, size) ==
    <<FMul(FSub(displaySize[1], size[1]), Half), FMul(FSub(displaySize[2], size[2]), Half)>>

\* pos + pixel * scale
PixelToScreen(pixel, pos, scale) == FAdd(pos, FMul(FromInt(pixel), scale))

ConvertWith(b, pos, scaleX, scaleY) ==
    [b EXCEPT !.x1 = PixelToScreen(b.pixelX1, pos[1], scaleX),
              !.y1 = PixelToScreen(b.pixelY1, pos[2], scaleY),
              !.x2 = PixelToScreen(b.pixelX2, pos[1], scaleX),
              !.y2 = PixelToScreen(b.pixelY2, pos[2], scaleY),
              !.loadedFromCSV = FALSE]

\* the conversion of a box loaded from CSV, done once by Render
ConvertLoaded(b, img, pos, size) ==
    IF b.loadedFromCSV /\ b.isValid
    THEN ConvertWith(b, pos, FDiv(size[1], FromInt(img.cols)), FDiv(size[2], FromInt(img.rows)))
    ELSE b

\* the frame for a window size: layout, conversion, then the mouse
RenderFrame(size, pos, b, points) ==
    \E mousePos \in points, down \in BOOLEAN,
       far \in (IF mouseDown /\ ~dragPast THEN BOOLEAN ELSE {TRUE}) :
        /\ mouseDown' = down
        /\ MousePos' = mousePos
        /\ dragPast' = (down /\ mouseDown /\ (dragPast \/ far))
        /\ imageSize' = size
        /\ imagePos' = pos
        /\ bbox' = HandleMouseInput(b, mousePos, down /\ ~mouseDown,
                                    down /\ mouseDown /\ (dragPast \/ far),
                                    ~down /\ mouseDown, pos, size)

RenderLayout(size, displaySize, points) ==
    RenderFrame(size, CenterOffset(displaySize, size),
                ConvertLoaded(bbox, image, CenterOffset(displaySize, size), size), points)

\* One frame's Render.  The frame's inputs: the window size, the mouse
\* position, the state of the left button and, while the button is held,
\* whether the cursor has by now been MouseDragThreshold away from where it
\* went down (ImGui::IsMouseDragging is true from then on).  A frame in
\* which the button goes down is the click, one in which it goes up the
\* release.
Render(sizes, points) ==
    /\ pc \notin {"start", "done"}
    /\ IF textureID = 0
       THEN /\ \E mousePos \in points, down \in BOOLEAN,
                  far \in (IF mouseDown /\ ~dragPast THEN BOOLEAN ELSE {TRUE}) :
                   /\ mouseDown' = down
                   /\ MousePos' = mousePos
                   /\ dragPast' = (down /\ mouseDown /\ (dragPast \/ far))
            /\ UNCHANGED <<bbox, imagePos, imageSize>>
       ELSE \E displaySize \in sizes :
                RenderLayout(FitSize(image, displaySize), displaySize, points)
    /\ pc' = "loop"
    /\ UNCHANGED <<image, textureID, imagePath, imageFiles, currentImageIndex, csv>>

(***************************************************************************)
(* SaveBoundingBoxToCSV                                                    *)
(***************************************************************************)
IntMin == -2147483647 - 1

\* What (int)a yields.  Out of int's range (or NaN) the conversion is
\* undefined; the builds produce either the "integer indefinite" value
\* (x86 cvttss2si) or the saturated value, 0 for NaN (ARM fcvtzs).
CastModes == {"indefinite", "saturate"}

CastInt(a, mode) ==
    IF CastDefined(a) THEN Truncate(a)
    ELSE IF mode = "indefinite" THEN IntMin
    ELSE IF IsNaN(a) THEN 0
    ELSE IF Sign(a) < 0 THEN IntMin ELSE IntMax

MinInt(a, b) == IF b < a THEN b ELSE a

MaxInt(a, b) == IF a < b THEN b ELSE a

\* a clamp that forgets the upper bound: C2's property must tell it from Clamp
ClampLow(v, limit) == MaxInt(0, v)

\* std::max(0, std::min(v, limit))
Clamp(v, limit) == MaxInt(0, MinInt(v, limit))

\* (v - pos) * scale, the float that is cast to int
ScreenToPixel(v, pos, scale) == FMul(FSub(v, pos), scale)

\* one clamped int of the row
PixelOf(v, pos, scale, limit, mode) == Clamp(CastInt(ScreenToPixel(v, pos, scale), mode), limit)

RowWith(b, img, pos, scaleX, scaleY, mode) ==
    << PixelOf(FMin(b.x1, b.x2), pos[1], scaleX, img.cols, mode),
       PixelOf(FMin(b.y1, b.y2), pos[2], scaleY, img.rows, mode),
       PixelOf(FMax(b.x1, b.x2), pos[1], scaleX, img.cols, mode),
       PixelOf(FMax(b.y1, b.y2), pos[2], scaleY, img.rows, mode) >>

\* the four ints SaveBoundingBoxToCSV writes: <<xmin, ymin, xmax, ymax>>
PixelRow(b, img, pos, size, mode) ==
    RowWith(b, img, pos, FDiv(FromInt(img.cols), size[1]), FDiv(FromInt(img.rows), size[2]), mode)

(***************************************************************************)
(* OutputBoundingBox                                                       *)
(***************************************************************************)
\* (a / 2.0f) / (float)limit
HalfOver(a, limit) == FDiv(FDiv(FromInt(a), FromInt(2)), FromInt(limit))

\* the four floats of the "YOLOv5 format" line, for the clamped ints of row:
\* <<x_center, y_center, width, height>>
YoloOf(row, img) ==
    << HalfOver(row[1] + row[3], img.cols), HalfOver(row[2] + row[4], img.rows),
       FDiv(FromInt(row[3] - row[1]), FromInt(img.cols)),
       FDiv(FromInt(row[4] - row[2]), FromInt(img.rows)) >>

\* what OutputBoundingBox prints for a valid box: the ints are computed as
\* SaveBoundingBoxToCSV computes them
OutputBoundingBox(b, img, pos, size, mode) == YoloOf(PixelRow(b, img, pos, size, mode), img)

\* a save that appends to the file: C6's property must tell it from WriteCsv
WriteCsvAppend(old, row) ==
    FileOf(old.lines \o <<Header, FormatRow(row[1], row[2], row[3], row[4])>>)

\* the file std::ofstream leaves: opened in overwrite mode, two lines written
WriteCsv(old, row) == FileOf(<<Header, FormatRow(row[1], row[2], row[3], row[4])>>)

\* The S key: SaveCSV.  pc tells how the call ended: "saved" when the file
\* was written, "unsaved" when the guard returned or the file did not open.
SaveCSV ==
    /\ pc = "loop"
    /\ IF ~bbox.isValid \/ imagePath = <<>> \/ CsvPathOf(imagePath) \in ReadOnlyCsv
       THEN pc' = "unsaved" /\ UNCHANGED csv
       ELSE /\ \E mode \in CastModes :
                 csv' = [csv EXCEPT ![CsvPathOf(imagePath)] =
                            WriteCsv(@, PixelRow(bbox, image, imagePos, imageSize, mode))]
            /\ pc' = "saved"
    /\ UNCHANGED <<image, textureID, imagePath, imageFiles, currentImageIndex, bbox,
                   imagePos, imageSize, mouseDown, dragPast, MousePos>>

(***************************************************************************)
(* the keys handled after ImGui::NewFrame                                  *)
(***************************************************************************)
NavigatePrevious ==
    /\ pc \in {"loop", "saved", "unsaved"}
    /\ pc' = "prev"
    /\ IF imageFiles = <<>> \/ currentImageIndex = -1
       THEN UNCHANGED <<image, textureID, imagePath, imageFiles, currentImageIndex, bbox>>
       ELSE LET prevIndex == (currentImageIndex - 1 + Len(imageFiles)) % Len(imageFiles)
            IN LoadImage(imageFiles[prevIndex + 1], DefaultBox)
    /\ UNCHANGED <<imagePos, imageSize, mouseDown, dragPast, MousePos, csv>>

NavigateNext ==
    /\ pc \in {"loop", "saved", "unsaved", "prev"}
    /\ pc' = "next"
    /\ IF imageFiles = <<>> \/ currentImageIndex = -1
       THEN UNCHANGED <<image, textureID, imagePath, imageFiles, currentImageIndex, bbox>>
       ELSE LET nextIndex == (currentImageIndex + 1) % Len(imageFiles)
            IN LoadImage(imageFiles[nextIndex + 1], DefaultBox)
    /\ UNCHANGED <<imagePos, imageSize, mouseDown, dragPast, MousePos, csv>>

\* The L key: LoadCSV
LoadCSV ==
    /\ pc \in {"loop", "saved", "unsaved", "prev", "next"}
    /\ pc' = "load"
    /\ bbox' = LoadBoundingBoxFromCSV(imagePath, bbox, csv)
    /\ UNCHANGED <<image, textureID, imagePath, imageFiles, currentImageIndex,
                   imagePos, imageSize, mouseDown, dragPast, MousePos, csv>>

\* main() before the loop: LoadImage(argv[1])
Startup(args) ==
    /\ pc = "start"
    /\ pc' = "loop"
    /\ \E path \in args : LoadImage(path, bbox)
    /\ UNCHANGED <<imagePos, imageSize, mouseDown, dragPast, MousePos, csv>>

\* the loop condition finds the window closed
Quit ==
    /\ pc = "loop"
    /\ pc' = "done"
    /\ UNCHANGED <<image, textureID, imagePath, imageFiles, currentImageIndex, bbox,
                   imagePos, imageSize, mouseDown, dragPast, MousePos, csv>>

(***************************************************************************)
(* initial states and specifications                                       *)
(***************************************************************************)
PathA == <<"d","/","a",".","j","p","g">>

PathSolo == <<"s",".","j","p","g">>

PathLocked == <<"r",".","j","p","g">>

PathWide == <<"w",".","p","n","g">>

PathMissing == <<"d","/","x",".","j","p","g">>

\* a CSV file as SaveBoundingBoxToCSV writes it
SavedFile(row) == FileOf(<<Header, FormatRow(row[1], row[2], row[3], row[4])>>)

\* a CSV file without a header line
BareFile(row) == FileOf(<<FormatRow(row[1], row[2], row[3], row[4])>>)

InitWith(files, xy) ==
    /\ image = EmptyMat
    /\ textureID = 0
    /\ imagePath = <<>>
    /\ imageFiles = <<>>
    /\ currentImageIndex = -1
    /\ bbox = [DefaultBox EXCEPT !.x1 = xy[1], !.y1 = xy[2], !.x2 = xy[3], !.y2 = xy[4]]
    /\ imagePos = <<FZero, FZero>>
    /\ imageSize = <<FZero, FZero>>
    /\ mouseDown = FALSE
    /\ dragPast = FALSE
    /\ MousePos = NoMouse
    /\ csv = files
    /\ pc = "start"

NoCsv == [p \in CsvPaths |-> NoFile]

\* a CSV file with two data rows
LongFile == FileOf(<<Header, FormatRow(1, 1, 2, 2), FormatRow(0, 0, 3, 3)>>)

\* the directory d with or without a CSV file for a.jpg
Init ==
    \E f \in {NoFile, LongFile}, xy \in Indeterminate :
        InitWith([NoCsv EXCEPT ![CsvPathOf(PathA)] = f], xy)

Next ==
    \/ Startup({PathA, PathMissing, PathLocked})
    \/ SaveCSV
    \/ NavigatePrevious
    \/ NavigateNext
    \/ LoadCSV
    \/ Render({WindowCreated}, {Pt(300, 100), Outside})
    \/ Quit

Spec == Init /\ [][Next]_vars

\* one picture, no directory: the mouse over a grid of positions
InitGesture == \E xy \in Indeterminate : InitWith(NoCsv, xy)

NextGesture ==
    \/ Startup({PathSolo})
    \/ Render({WindowCreated}, MousePoints)
    \/ Quit

SpecGesture == InitGesture /\ [][NextGesture]_vars

\* one 4 x 3 picture whose CSV file holds any of the initial rows, in a window
\* the user may resize
InitGeometry ==
    \E f \in {NoFile, BareFile(<<1, 1, 2, 2>>)} \cup { SavedFile(r) : r \in InitialRows },
       xy \in Indeterminate :
        InitWith([NoCsv EXCEPT ![CsvPathOf(PathWide)] = f], xy)

NextGeometry ==
    \/ Startup({PathWide})
    \/ SaveCSV
    \/ Render(WindowSizes, TwoPoints)
    \/ Quit

SpecGeometry == InitGeometry /\ [][NextGeometry]_vars

\* one 4 x 3 picture whose CSV file may hold a row far wider than the picture:
\* the mouse on the top-left corner of the loaded box, in it and beside it
LogPoints == { Pt(333, 267), Pt(600, 400), Pt(900, 700) }

InitLog ==
    \E f \in {NoFile, SavedFile(<<1, 1, IntMax, 2>>)}, xy \in Indeterminate :
        InitWith([NoCsv EXCEPT ![CsvPathOf(PathWide)] = f], xy)

NextLog ==
    \/ Startup({PathWide})
    \/ Render({WindowCreated}, LogPoints)
    \/ Quit

SpecLog == InitLog /\ [][NextLog]_vars

\* one picture: the mouse on the corners of boxes 24 and 26 wide and tall, on
\* the top edge of the wider one, and beside the picture
HandlePoints == { Pt(300, 100), Pt(324, 124), Pt(326, 126), Pt(313, 100), Outside }

NextHandle ==
    \/ Startup({PathSolo})
    \/ Render({WindowCreated}, HandlePoints)
    \/ Quit

SpecHandle == InitGesture /\ [][NextHandle]_vars

(***************************************************************************)
(* properties                                                              *)
(***************************************************************************)
\* the CSV file of the displayed picture
SavedCsv == csv[CsvPathOf(imagePath)]

\* the four ints of the second line of a CSV file
DataRow(file) ==
    << Stoi(Split(file.lines[2])[1])[2], Stoi(Split(file.lines[2])[2])[2],
       Stoi(Split(file.lines[2])[3])[2], Stoi(Split(file.lines[2])[4])[2] >>

\* the normalised sides of a box
MinX(b) == FMin(b.x1, b.x2)

MaxX(b) == FMax(b.x1, b.x2)

MinY(b) == FMin(b.y1, b.y2)

MaxY(b) == FMax(b.y1, b.y2)

\* C1: every data row SaveCSV writes has x_min <= x_max and y_min <= y_max.
\* (pc = "saved" exactly in the state SaveCSV leaves after writing the file.)
C1_RowOrdered ==
    pc = "saved" => /\ DataRow(SavedCsv)[1] <= DataRow(SavedCsv)[3]
                    /\ DataRow(SavedCsv)[2] <= DataRow(SavedCsv)[4]

\* C2: every data row SaveCSV writes lies in the decoded picture:
\* 0 <= x_min, x_max <= image.cols and 0 <= y_min, y_max <= image.rows.
C2_RowInImage ==
    pc = "saved" => /\ DataRow(SavedCsv)[1] \in 0..image.cols
                    /\ DataRow(SavedCsv)[3] \in 0..image.cols
                    /\ DataRow(SavedCsv)[2] \in 0..image.rows
                    /\ DataRow(SavedCsv)[4] \in 0..image.rows

\* a box loaded from a row that lies outside the picture on both sides has
\* been converted and saved: the row written is the whole picture
C2_OutOfRangeRowSaved ==
    /\ pc = "saved"
    /\ bbox.pixelX1 < 0 /\ bbox.pixelY1 < 0
    /\ bbox.pixelX2 > image.cols /\ bbox.pixelY2 > image.rows
    /\ FLess(bbox.x1, imagePos[1]) /\ FLess(FAdd(imagePos[1], imageSize[1]), bbox.x2)
    /\ DataRow(SavedCsv) = <<0, 0, image.cols, image.rows>>

\* the coordinate the handle named h moves: "min", "max" or "none", per axis
HandleSideX(h) ==
    IF h \in {"TopLeft", "BottomLeft", "Left"} THEN "min"
    ELSE IF h \in {"TopRight", "BottomRight", "Right"} THEN "max" ELSE "none"

HandleSideY(h) ==
    IF h \in {"TopLeft", "TopRight", "Top"} THEN "min"
    ELSE IF h \in {"BottomLeft", "BottomRight", "Bottom"} THEN "max" ELSE "none"

\* the new normalised sides <<lo2, hi2>> follow from the old ones <<lo, hi>>
\* when the side named by side is moved to m
SideMoved(side, lo, hi, lo2, hi2, m) ==
    CASE side = "min" -> lo2 = m /\ hi2 = hi
      [] side = "max" -> hi2 = m /\ lo2 = lo
      [] OTHER        -> lo2 = lo /\ hi2 = hi

\* C3: in a frame that drags with a handle active (the cursor over the
\* picture and not beyond the box), the side(s) the handle names, in min/max
\* terms, move to the cursor and the opposite side(s) stay where they were.
C3_ResizeNormalized ==
    [][ ( /\ bbox.activeHandle # "None"
          /\ bbox'.activeHandle = bbox.activeHandle
          /\ pc' = "loop" /\ dragPast'
          /\ IsOverImage(MousePos', imagePos', imageSize')
          /\ IsPointInBoundingBox(bbox, MousePos') )
        => /\ SideMoved(HandleSideX(bbox.activeHandle), MinX(bbox), MaxX(bbox),
                        MinX(bbox'), MaxX(bbox'), MousePos'[1])
           /\ SideMoved(HandleSideY(bbox.activeHandle), MinY(bbox), MaxY(bbox),
                        MinY(bbox'), MaxY(bbox'), MousePos'[2]) ]_vars

\* the flags of the box that are true
TrueFlags == { f \in {"isDrawing", "isValid", "isSelected", "loadedFromCSV"} : bbox[f] }

\* C4 as stated: at most one of isDrawing, isValid, isSelected, loadedFromCSV
\* is true in every reachable state.
C4_FlagsExclusive == Cardinality(TrueFlags) <= 1

\* C4 amended: the flags that are true together are none, isDrawing alone,
\* isValid alone, isValid with isSelected, or isValid with loadedFromCSV.
C4_FlagCombinations ==
    TrueFlags \in { {}, {"isDrawing"}, {"isValid"},
                    {"isValid", "isSelected"}, {"isValid", "loadedFromCSV"} }

\* a finished box: valid and selected at once
C4_ValidAndSelected ==
    /\ bbox.isValid /\ bbox.isSelected /\ ~bbox.isDrawing /\ ~bbox.loadedFromCSV
    /\ ~mouseDown

\* the frame is a left click over the picture on a valid box that is not
\* selected and has no handle active
ClickOnUnselected ==
    /\ bbox.isValid /\ ~bbox.isSelected /\ ~bbox.loadedFromCSV
    /\ bbox.activeHandle = "None"
    /\ ~mouseDown /\ mouseDown' /\ pc' = "loop"
    /\ IsOverImage(MousePos', imagePos', imageSize')

Corners == {"TopLeft", "TopRight", "BottomLeft", "BottomRight"}

C6_TwoLines ==
    pc = "saved" =>
       /\ SavedCsv.exists
       /\ Len(SavedCsv.lines) = 2
       /\ SavedCsv.lines[1] = Header
       /\ \E mode \in CastModes :
            DataRow(SavedCsv) = PixelRow(bbox, image, imagePos, imageSize, mode)
       /\ SavedCsv.lines[2] = FormatRow(DataRow(SavedCsv)[1], DataRow(SavedCsv)[2],
                                        DataRow(SavedCsv)[3], DataRow(SavedCsv)[4])

\* the file of d/a.jpg held two data rows, the first was loaded into the box
\* (pixelX2 = 2), and a save has replaced the file by another row
C6_LongFileReplaced ==
    /\ pc = "saved" /\ imagePath = PathA
    /\ bbox.pixelX1 = 1 /\ bbox.pixelX2 = 2
    /\ DataRow(SavedCsv) # <<1, 1, 2, 2>>
    /\ DataRow(SavedCsv) # <<0, 0, 3, 3>>

\* C7: a save while one picture is displayed changes the box loaded for no
\* other picture of the directory.
C7_OwnCompanion ==
    [][ pc' = "saved" =>
          \A i \in 1..Len(imageFiles) :
             imageFiles[i] # imagePath =>
                LoadBoundingBoxFromCSV(imageFiles[i], DefaultBox, csv')
                  = LoadBoundingBoxFromCSV(imageFiles[i], DefaultBox, csv) ]_vars

\* the frame is a left press over the picture while there is no valid box
DrawPress ==
    /\ textureID # 0 /\ ~bbox.isValid
    /\ ~mouseDown /\ mouseDown' /\ pc' = "loop"
    /\ IsOverImage(MousePos', imagePos', imageSize')

\* the frame keeps the button held while a box is being drawn
DrawHold == bbox.isDrawing /\ mouseDown /\ mouseDown' /\ pc' = "loop"

\* the frame is the left release over the picture that ends the drawing
DrawRelease ==
    /\ bbox.isDrawing /\ mouseDown /\ ~mouseDown' /\ pc' = "loop"
    /\ IsOverImage(MousePos', imagePos', imageSize')

\* C8: a left press over the picture at P with no valid box starts a drawing
\* with both corners at P; while the button is held the box stays invalid
\* and its first corner stays P; the left release over the picture at R,
\* the box still being drawn (no key handler has replaced it since the
\* press), leaves isValid and isSelected true, isDrawing false, first corner
\* P and second corner R, also when R = P.
C8_DrawGesture ==
    /\ [](bbox.isDrawing => ~bbox.isValid)
    /\ [][ DrawPress => /\ bbox'.isDrawing /\ ~bbox'.isValid
                        /\ <<bbox'.x1, bbox'.y1>> = MousePos'
                        /\ <<bbox'.x2, bbox'.y2>> = MousePos' ]_vars
    /\ [][ DrawHold => /\ bbox'.isDrawing /\ ~bbox'.isValid
                       /\ bbox'.x1 = bbox.x1 /\ bbox'.y1 = bbox.y1 ]_vars
    /\ [][ DrawRelease =>
             bbox' = [bbox EXCEPT !.x2 = MousePos'[1], !.y2 = MousePos'[2],
                                  !.isDrawing = FALSE, !.isValid = TRUE,
                                  !.isSelected = TRUE] ]_vars

\* a box drawn from (900, 700) and released at (300, 100) without a drag frame
\* in between: the second corner is the release point
C8_BoxDrawn ==
    /\ bbox.isValid /\ bbox.isSelected /\ ~bbox.isDrawing /\ ~mouseDown
    /\ <<bbox.x1, bbox.y1>> = Pt(900, 700)
    /\ <<bbox.x2, bbox.y2>> = Pt(300, 100)
    /\ MousePos = Pt(300, 100)

\* the path NavigateNext or NavigatePrevious hands to LoadImage
NavigateTarget(forward) ==
    imageFiles[((currentImageIndex + (IF forward THEN 1 ELSE Len(imageFiles) - 1))
                   % Len(imageFiles)) + 1]

\* C9: a NavigateNext or NavigatePrevious whose LoadImage fails (file missing
\* or decode failed) leaves imagePath, imageFiles, currentImageIndex, the
\* decoded image and the bounding box unchanged.
C9_FailedLoadKeepsState ==
    [][ ( /\ pc' \in {"prev", "next"}
          /\ imageFiles # <<>> /\ currentImageIndex # -1
          /\ \/ FileMissing(NavigateTarget(pc' = "next"))
             \/ DecodeFails(NavigateTarget(pc' = "next")) )
        => UNCHANGED <<imagePath, imageFiles, currentImageIndex, image, bbox>> ]_vars

\* the box is the conversion of its pixel row under the layout of the last
\* frame, untouched by the mouse
ConvertedUntouched ==
    /\ ~bbox.loadedFromCSV /\ ~bbox.isSelected /\ ~bbox.isDrawing
    /\ bbox.activeHandle = "None"
    /\ bbox = ConvertWith([bbox EXCEPT !.loadedFromCSV = TRUE], imagePos,
                          FDiv(imageSize[1], FromInt(image.cols)),
                          FDiv(imageSize[2], FromInt(image.rows)))

\* C10: a row (a, b, c, d) with 0 <= a <= c <= width and 0 <= b <= d <= height
\* that was loaded, converted by Render and then saved, with no mouse input
\* and no change of window size in between, is written back as (a, b, c, d).
C10_RoundTrip ==
    ( /\ pc = "saved"
      /\ 0 <= bbox.pixelX1 /\ bbox.pixelX1 <= bbox.pixelX2 /\ bbox.pixelX2 <= image.cols
      /\ 0 <= bbox.pixelY1 /\ bbox.pixelY1 <= bbox.pixelY2 /\ bbox.pixelY2 <= image.rows
      /\ bbox.isValid /\ ConvertedUntouched )
    => DataRow(SavedCsv) = <<bbox.pixelX1, bbox.pixelY1, bbox.pixelX2, bbox.pixelY2>>

\* a frame in which OutputBoundingBox prints: the button is released over the
\* picture while a box is being drawn or a handle is active
OutputStep ==
    /\ textureID # 0 /\ pc' = "loop"
    /\ mouseDown /\ ~mouseDown'
    /\ IsOverImage(MousePos', imagePos', imageSize')
    /\ (bbox.isDrawing \/ bbox.activeHandle # "None")
    /\ bbox'.isValid

\* 0 <= a <= 1
InUnit(a) == FLessEq(FZero, a) /\ FLessEq(a, FromInt(1))

\* C11: every value OutputBoundingBox logs for a valid box lies in [0, 1]:
\* the centre and the extent of the clamped ints, divided by the picture's
\* dimensions
C11_YoloNormalized ==
    [][ OutputStep =>
          \A mode \in CastModes : \A i \in 1..4 :
              InUnit(OutputBoundingBox(bbox', image, imagePos', imageSize', mode)[i]) ]_vars

\* C12: in every reachable state a box that is being drawn is not valid and
\* has no handle active: drawing excludes a finished box and a resize.
C12_DrawingAlone == bbox.isDrawing => (~bbox.isValid /\ bbox.activeHandle = "None")

\* the L key was pressed while a box was being drawn with the button held and
\* found no row to load: the drawing goes on
C12_DrawingAcrossLoad == bbox.isDrawing /\ mouseDown /\ pc = "load"

\* C13: in every reachable state a selected box is valid.
C13_SelectedIsValid == bbox.isSelected => bbox.isValid

\* the L key was pressed on a selected box and found no row to load: the box
\* is still selected
C13_SelectedAcrossLoad == bbox.isSelected /\ ~mouseDown /\ pc = "load"

\* C14: isDrawing or an active handle is found only while the left button is
\* held: once the button is up, wherever it was released, no box is being
\* drawn and no handle is active.
C14_ReleaseEndsGesture == ~mouseDown => (~bbox.isDrawing /\ bbox.activeHandle = "None")

\* the four screen coordinates of a box
Coords(b) == <<b.x1, b.y1, b.x2, b.y2>>

\* the frame is a left click over the picture, inside the valid box and on no
\* resize handle
ClickInside ==
    /\ textureID # 0 /\ pc' = "loop"
    /\ ~mouseDown /\ mouseDown'
    /\ IsOverImage(MousePos', imagePos', imageSize')
    /\ bbox.isValid /\ ~bbox.loadedFromCSV
    /\ GetResizeHandle(bbox, MousePos') = "None"
    /\ IsPointInBoundingBox(bbox, MousePos')

\* C15: a left click inside a valid box that hits no resize handle selects
\* the box and moves no coordinate, and a drag that follows it, wherever the
\* cursor goes, moves no coordinate either.
C15_ClickOnlySelects ==
    [][ ClickInside =>
          /\ bbox'.isSelected
          /\ Coords(bbox') = Coords(bbox)
          /\ \A p \in MousePoints :
                Coords(HandleMouseInput(bbox', p, FALSE, TRUE, FALSE, imagePos', imageSize'))
                  = Coords(bbox') ]_vars

\* the box the frame's click finds: Render has converted a loaded row
BoxAtClick == ConvertLoaded(bbox, image, imagePos', imageSize')

\* the frame is a left click over the picture that falls on no handle of a
\* valid box and not inside one
ClickElsewhere ==
    /\ textureID # 0 /\ pc' = "loop"
    /\ ~mouseDown /\ mouseDown'
    /\ IsOverImage(MousePos', imagePos', imageSize')
    /\ BoxAtClick.isValid =>
          /\ GetResizeHandle(BoxAtClick, MousePos') = "None"
          /\ ~IsPointInBoundingBox(BoxAtClick, MousePos')

\* C16: a left click over the picture, on no handle and not inside the valid
\* box, puts both corners at the click point and leaves isDrawing true,
\* isValid and isSelected false and activeHandle None; while the box is being
\* drawn the S key writes no file.
C16_ClickStartsBox ==
    /\ [][ ClickElsewhere =>
             bbox' = [BoxAtClick EXCEPT !.x1 = MousePos'[1], !.y1 = MousePos'[2],
                                        !.x2 = MousePos'[1], !.y2 = MousePos'[2],
                                        !.isDrawing = TRUE, !.isValid = FALSE,
                                        !.isSelected = FALSE,
                                        !.activeHandle = "None"] ]_vars
    /\ [][ (bbox.isDrawing /\ pc' \in {"saved", "unsaved"})
             => (pc' = "unsaved" /\ csv' = csv) ]_vars

\* the box loaded from d/a.csv (pixelX2 = 2) was valid; a press beside it
\* has started a new box, and the S key, pressed with the button still held,
\* has written nothing
C16_SaveWhileDrawing ==
    /\ bbox.isDrawing /\ ~bbox.isValid /\ mouseDown /\ pc = "unsaved"
    /\ imagePath = PathA /\ bbox.pixelX2 = 2
    /\ SavedCsv = LongFile

\* the distances from a side of the box at which a hit test is probed
ProbeOffsets == {-13, -12, 6, 7, 13}

\* the points probed around the box with the sides lo and hi, on one axis
ProbesAt(lo, hi) == { lo + d : d \in ProbeOffsets } \cup { hi + d : d \in ProbeOffsets }

\* the point (px, py) is within 12 of the corner (cx, cy) in both axes
InCornerZone(px, py, cx, cy) == AbsInt(px - cx) <= 12 /\ AbsInt(py - cy) <= 12

\* p is within 6 of the edge at e, and q strictly more than 12 inside both
\* ends lo and hi of that edge
OnEdge(p, e, q, lo, hi) == AbsInt(p - e) <= 6 /\ q > lo + 12 /\ q < hi - 12

\* the handle the fixed-priority hit test names, in integers
FirstMatch(selected, minX, maxX, minY, maxY, px, py) ==
    IF InCornerZone(px, py, minX, minY) THEN "TopLeft"
    ELSE IF InCornerZone(px, py, maxX, minY) THEN "TopRight"
    ELSE IF InCornerZone(px, py, minX, maxY) THEN "BottomLeft"
    ELSE IF InCornerZone(px, py, maxX, maxY) THEN "BottomRight"
    ELSE IF selected /\ OnEdge(py, minY, px, minX, maxX) THEN "Top"
    ELSE IF selected /\ OnEdge(py, maxY, px, minX, maxX) THEN "Bottom"
    ELSE IF selected /\ OnEdge(px, minX, py, minY, maxY) THEN "Left"
    ELSE IF selected /\ OnEdge(px, maxX, py, minY, maxY) THEN "Right"
    ELSE "None"

\* what the claim says of the handle h returned at (px, py)
HandleAsStated(h, selected, minX, maxX, minY, maxY, px, py) ==
    /\ h = FirstMatch(selected, minX, maxX, minY, maxY, px, py)
    /\ h \in {"Top", "Bottom", "Left", "Right"} =>
          \A cx \in {minX, maxX}, cy \in {minY, maxY} : ~InCornerZone(px, py, cx, cy)
    /\ maxX - minX <= 24 => h \notin {"Top", "Bottom"}
    /\ maxY - minY <= 24 => h \notin {"Left", "Right"}

\* C17: on every valid box GetResizeHandle returns the first match of the
\* four corners (within 12 in both axes), then, for a selected box, of Top,
\* Bottom, Left, Right (within 6 of the edge, more than 12 inside its ends),
\* else None; no edge handle in a corner zone; no Top or Bottom on a box
\* at most 24 wide, no Left or Right on one at most 24 tall.
C17_HandlePriority ==
    bbox.isValid =>
       \A px \in ProbesAt(Truncate(MinX(bbox)), Truncate(MaxX(bbox))),
          py \in ProbesAt(Truncate(MinY(bbox)), Truncate(MaxY(bbox))) :
            HandleAsStated(GetResizeHandle(bbox, Pt(px, py)), bbox.isSelected,
                           Truncate(MinX(bbox)), Truncate(MaxX(bbox)),
                           Truncate(MinY(bbox)), Truncate(MaxY(bbox)), px, py)

\* a press at (313, 100) on the selected box from (300, 100) to (326, 126), 26
\* wide, has made Top the active handle
C17_TopEdgeGrabbed ==
    /\ bbox.isValid /\ bbox.activeHandle = "Top" /\ mouseDown
    /\ MousePos = Pt(313, 100)
    /\ <<MinX(bbox), MinY(bbox)>> = Pt(300, 100)
    /\ <<MaxX(bbox), MaxY(bbox)>> = Pt(326, 126)

\* the frame finds the cursor outside the displayed picture
FrameOutside ==
    /\ textureID # 0 /\ pc' = "loop"
    /\ ~IsOverImage(MousePos', imagePos', imageSize')

\* C18: a frame whose cursor is outside the displayed picture leaves x1, y1,
\* x2, y2 (as Render has set them for a loaded row), isValid, isDrawing and
\* activeHandle alone, whatever the button does; it clears isSelected when
\* the button goes down and leaves it alone otherwise.
C18_OutsideIgnored ==
    [][ FrameOutside =>
          /\ Coords(bbox') = Coords(BoxAtClick)
          /\ bbox'.isValid = bbox.isValid
          /\ bbox'.isDrawing = bbox.isDrawing
          /\ bbox'.activeHandle = bbox.activeHandle
          /\ bbox'.isSelected = (IF ~mouseDown /\ mouseDown' THEN FALSE ELSE bbox.isSelected) ]_vars

\* a handle is active and the cursor has been dragged out of the picture:
\* the box has not followed it
C18_DraggedOutside ==
    /\ bbox.isValid /\ bbox.activeHandle # "None"
    /\ mouseDown /\ dragPast /\ MousePos = Outside
    /\ Outside[1] \notin {bbox.x1, bbox.x2}

\* the frame brings no mouse input to a finished box: the button is up and
\* stays up
QuietFrame ==
    /\ textureID # 0 /\ pc' = "loop"
    /\ bbox.isValid /\ ~bbox.loadedFromCSV
    /\ ~mouseDown /\ ~mouseDown'

\* C19: the row SaveCSV would write for a finished box is the same before and
\* after a frame without mouse input, whatever size the window has in it.
C19_RowIgnoresWindow ==
    [][ QuietFrame =>
          \A mode \in CastModes :
              PixelRow(bbox', image, imagePos', imageSize', mode)
                = PixelRow(bbox, image, imagePos, imageSize, mode) ]_vars

\* C20: whenever SaveCSV writes the file, the box it writes is not one loaded
\* from CSV whose screen coordinates Render has yet to compute.
C20_SaveAfterConversion == [][ pc' = "saved" => ~bbox.loadedFromCSV ]_vars

====
